---- MODULE Spec2Model ----
(***************************************************************************)
(* Model of ConsoleCommandManager.h: the CommandContext parser (vector and *)
(* line mode), CommandDefinition::validateArguments and the dispatcher     *)
(* CommandManager::processCommand with the registry it consults.           *)
(*                                                                         *)
(* A std::string is a sequence of one-character strings, so that the       *)
(* parser's character tests (front, back, find, substr) are computed.      *)
(* C++ indices are 0-based; sequences here are 1-based: argv[0] of the     *)
(* source is argv[1] of the model.                                         *)
(***************************************************************************)
EXTENDS Integers, Sequences, FiniteSets, TLC

\* ------------------------------------------------------------------------
\* Bounds of the model
\* ------------------------------------------------------------------------
MaxArgs == 3        \* tokens after the command name, parser inputs
MaxChunks == 3      \* chunks a parser input line is made of
MaxDArgs == 2       \* tokens after the command name, dispatcher inputs
MaxDChunks == 3     \* chunks a dispatcher input line is made of
MaxRegs == 1        \* registerCommand calls of the setup phase
MaxParams == 2      \* declared parameters of a validated entry
MaxPos == 3         \* positionals of a validated invocation
MaxOps == 2         \* registerCommand and createCommand calls on the registry
MaxSimLen == 5      \* characters of a typed name and of a candidate name
MaxAliases == 2     \* addAlias calls on one created definition
MaxLines == 2       \* lines std::cin holds for runInteractive
MaxLoopArgs == 3    \* tokens after argv[0] handed to processArgLoop

\* ------------------------------------------------------------------------
\* Strings
\* ------------------------------------------------------------------------
DQ == "\""
s_empty == <<>>
s_a == <<"a">>
s_c == <<"c">>
s_h == <<"h">>
s_k == <<"k">>
s_x == <<"x">>
s_p == <<"p">>
s_q == <<"q">>
s_help == <<"h", "e", "l", "p">>
s_list == <<"l", "i", "s", "t">>
s_qmark == <<"?">>
s_General == <<"G">>
DEFAULT_MAX_SUGGESTIONS == 5
s_Tools == <<"T">>
s_n == <<"n">>
s_m == <<"m">>
s_exit == <<"e", "x", "i", "t">>
s_quit == <<"q", "u", "i", "t">>
s_command == <<"c", "m", "d">>
s_category == <<"c", "a", "t">>
s_variadic == <<".", ".", ".">>
s_dash == <<"-">>
s_ddash == <<"-", "-">>

SeqsUpTo(S, n) == UNION {[1..k -> S] : k \in 0..n}

RECURSIVE Flatten(_)
Flatten(ss) == IF ss = <<>> THEN <<>> ELSE Head(ss) \o Flatten(Tail(ss))

\* s.substr(pos) and s.substr(pos, len) with a 0-based pos
SubstrFrom(s, pos) == SubSeq(s, pos + 1, Len(s))
Substr(s, pos, n) == SubSeq(s, pos + 1, IF pos + n > Len(s) THEN Len(s) ELSE pos + n)

\* s.find(ch): the 0-based position of the first ch, or -1 for npos
Find(s, ch) ==
    IF \E i \in 1..Len(s) : s[i] = ch
    THEN (CHOOSE i \in 1..Len(s) : s[i] = ch /\ \A j \in 1..(i - 1) : s[j] # ch) - 1
    ELSE -1

\* argv[i][0] of a C string: the terminating NUL when the string is empty
FirstChar(s) == IF Len(s) = 0 THEN "NUL" ELSE s[1]

\* std::map::insert in place of operator[]=: an existing key keeps its value
Put_keepFirst(m, k, v) ==
    IF k \in DOMAIN m THEN m
    ELSE [x \in DOMAIN m \cup {k} |-> IF x = k THEN v ELSE m[x]]

Put(m, k, v) == [x \in DOMAIN m \cup {k} |-> IF x = k THEN v ELSE m[x]]
EmptyMap == [x \in {} |-> <<>>]

\* ------------------------------------------------------------------------
\* CommandContext
\* ------------------------------------------------------------------------
\* flags is a std::map whose values are all "true" and of which only the
\* keys are ever read (hasFlag): it is kept as the set of its keys.
EmptyContext == [commandName |-> <<>>, options |-> EmptyMap, flags |-> {}, args |-> <<>>]

hasFlag(ctx, flag) == flag \in ctx.flags

argumentCount(ctx) == Len(ctx.args)

\* parseLongOption that takes the value without skipping it (no ++index)
parseLongOption_noSkip(ctx, opt, index, argv) ==
    LET eqPos == Find(opt, "=") IN
    IF eqPos # -1
    THEN [ctx |-> [ctx EXCEPT !.options =
                        Put(@, Substr(opt, 0, eqPos), SubstrFrom(opt, eqPos + 1))],
          index |-> index]
    ELSE IF index + 1 <= Len(argv) /\ FirstChar(argv[index + 1]) # "-"
         THEN [ctx |-> [ctx EXCEPT !.options = Put(@, opt, argv[index + 1])],
               index |-> index]
         ELSE [ctx |-> [ctx EXCEPT !.flags = @ \cup {opt}], index |-> index]

\* s.rfind(ch): the 0-based position of the last ch, or -1 for npos
FindLast(s, ch) ==
    IF \E i \in 1..Len(s) : s[i] = ch
    THEN (CHOOSE i \in 1..Len(s) : s[i] = ch /\ \A j \in (i + 1)..Len(s) : s[j] # ch) - 1
    ELSE -1

\* parseLongOption that splits key and value at the last "="
parseLongOption_lastEq(ctx, opt, index, argv) ==
    LET eqPos == FindLast(opt, "=") IN
    IF eqPos # -1
    THEN [ctx |-> [ctx EXCEPT !.options =
                        Put(@, Substr(opt, 0, eqPos), SubstrFrom(opt, eqPos + 1))],
          index |-> index]
    ELSE IF index + 1 <= Len(argv) /\ FirstChar(argv[index + 1]) # "-"
         THEN [ctx |-> [ctx EXCEPT !.options = Put(@, opt, argv[index + 1])],
               index |-> index + 1]
         ELSE [ctx |-> [ctx EXCEPT !.flags = @ \cup {opt}], index |-> index]

\* parseLongOption(opt, index, argc, argv): the context and the index after it
parseLongOption(ctx, opt, index, argv) ==
    LET eqPos == Find(opt, "=") IN
    IF eqPos # -1
    THEN [ctx |-> [ctx EXCEPT !.options =
                        Put(@, Substr(opt, 0, eqPos), SubstrFrom(opt, eqPos + 1))],
          index |-> index]
    ELSE IF index + 1 <= Len(argv) /\ FirstChar(argv[index + 1]) # "-"
         THEN [ctx |-> [ctx EXCEPT !.options = Put(@, opt, argv[index + 1])],
               index |-> index + 1]
         ELSE [ctx |-> [ctx EXCEPT !.flags = @ \cup {opt}], index |-> index]

\* parseShortOption whose bundle hands the following word to its last
\* character as a value
parseShortOption_bundleValue(ctx, opt, index, argv) ==
    IF Len(opt) = 0 THEN [ctx |-> ctx, index |-> index]
    ELSE IF index + 1 <= Len(argv) /\ FirstChar(argv[index + 1]) # "-"
         THEN [ctx |-> [ctx EXCEPT
                          !.options = Put(@, <<opt[Len(opt)]>>, argv[index + 1]),
                          !.flags = @ \cup {<<opt[j]>> : j \in 1..(Len(opt) - 1)}],
               index |-> index + 1]
         ELSE [ctx |-> [ctx EXCEPT !.flags = @ \cup {<<opt[j]>> : j \in 1..Len(opt)}],
               index |-> index]

\* parseShortOption(opt, index, argc, argv)
parseShortOption(ctx, opt, index, argv) ==
    IF Len(opt) = 0 THEN [ctx |-> ctx, index |-> index]
    ELSE IF Len(opt) = 1
         THEN IF index + 1 <= Len(argv) /\ FirstChar(argv[index + 1]) # "-"
              THEN [ctx |-> [ctx EXCEPT !.options = Put(@, <<opt[1]>>, argv[index + 1])],
                    index |-> index + 1]
              ELSE [ctx |-> [ctx EXCEPT !.flags = @ \cup {<<opt[1]>>}], index |-> index]
         ELSE [ctx |-> [ctx EXCEPT !.flags = @ \cup {<<opt[j]>> : j \in 1..Len(opt)}],
               index |-> index]

\* the for loop of parseArgs from index i on
RECURSIVE parseArgsLoop(_, _, _)
parseArgsLoop(ctx, i, argv) ==
    IF i > Len(argv) THEN ctx
    ELSE LET arg == argv[i] IN
         IF arg = s_ddash
         THEN [ctx EXCEPT !.args = @ \o SubSeq(argv, i + 1, Len(argv))]
         ELSE IF Len(arg) > 2 /\ Substr(arg, 0, 2) = s_ddash
              THEN LET r == parseLongOption(ctx, SubstrFrom(arg, 2), i, argv)
                   IN parseArgsLoop(r.ctx, r.index + 1, argv)
              ELSE IF Len(arg) > 1 /\ arg[1] = "-"
                   THEN LET r == parseShortOption(ctx, SubstrFrom(arg, 1), i, argv)
                        IN parseArgsLoop(r.ctx, r.index + 1, argv)
                   ELSE parseArgsLoop([ctx EXCEPT !.args = Append(@, arg)], i + 1, argv)

\* parseArgs that drops every "--" and keeps scanning the tokens after it
parseArgs_scansPastTerminator(argv) ==
    IF Len(argv) = 0 THEN EmptyContext
    ELSE parseArgsLoop([EmptyContext EXCEPT !.commandName = argv[1]], 2,
                       <<argv[1]>> \o SelectSeq(Tail(argv), LAMBDA t : t # s_ddash))

\* parseArgs whose loop starts at argv[0], scanning the command name too
parseArgs_fromZero(argv) ==
    IF Len(argv) = 0 THEN EmptyContext
    ELSE parseArgsLoop([EmptyContext EXCEPT !.commandName = argv[1]], 1, argv)

\* parseArgs(argc, argv) on a fresh context
parseArgs(argv) ==
    IF Len(argv) = 0 THEN EmptyContext
    ELSE parseArgsLoop([EmptyContext EXCEPT !.commandName = argv[1]], 2, argv)

IsSpace(ch) == ch \in {" ", "\t"}

\* the tokens "iss >> token" yields: maximal runs of non-whitespace characters
RECURSIVE SplitWS(_, _, _)
SplitWS(line, cur, acc) ==
    IF line = <<>> THEN (IF cur = <<>> THEN acc ELSE Append(acc, cur))
    ELSE IF IsSpace(Head(line))
         THEN SplitWS(Tail(line), <<>>, IF cur = <<>> THEN acc ELSE Append(acc, cur))
         ELSE SplitWS(Tail(line), Append(cur, Head(line)), acc)

\* the while loop of parseString joining the pieces without the space
RECURSIVE MergeQuoted_noSpace(_, _)
MergeQuoted_noSpace(words, tokens) ==
    IF words = <<>> THEN tokens
    ELSE LET token == Head(words)
             n == Len(tokens)
         IN IF n > 0 /\ tokens[n][1] = DQ /\ tokens[n][Len(tokens[n])] # DQ
            THEN MergeQuoted_noSpace(Tail(words), [tokens EXCEPT ![n] = @ \o token])
            ELSE MergeQuoted_noSpace(Tail(words), Append(tokens, token))

\* the while loop of parseString: an open quoted token takes the next token
RECURSIVE MergeQuoted(_, _)
MergeQuoted(words, tokens) ==
    IF words = <<>> THEN tokens
    ELSE LET token == Head(words)
             n == Len(tokens)
         IN IF n > 0 /\ tokens[n][1] = DQ /\ tokens[n][Len(tokens[n])] # DQ
            THEN MergeQuoted(Tail(words), [tokens EXCEPT ![n] = @ \o <<" ">> \o token])
            ELSE MergeQuoted(Tail(words), Append(tokens, token))

\* the quote clean-up loop of parseString; t.substr(1, t.size() - 2) of the
\* one-character token wraps to substr(1, npos), the empty string
StripQuotes(t) ==
    IF t[1] = DQ /\ t[Len(t)] = DQ
    THEN (IF Len(t) < 2 THEN <<>> ELSE SubSeq(t, 2, Len(t) - 1))
    ELSE t

Tokenize(line) ==
    LET tokens == MergeQuoted(SplitWS(line, <<>>, <<>>), <<>>)
    IN [i \in 1..Len(tokens) |-> StripQuotes(tokens[i])]

\* parseString(input) on a fresh context
parseString(line) ==
    LET tokens == Tokenize(line)
    IN IF tokens = <<>> THEN EmptyContext ELSE parseArgs(tokens)

\* ------------------------------------------------------------------------
\* CommandDefinition
\* ------------------------------------------------------------------------
\* executor: "none" is an empty std::function; "help" and "list" are the
\* built-in lambdas, which return true; "user" is a handler supplied by the
\* application, whose outcome is chosen at the call.
Param(n, req) == [name |-> n, required |-> req]
Option(n, sn, rv) == [name |-> n, shortName |-> sn, requiresValue |-> rv]

CommandDefinition(n, cat, als, params, opts, exec) ==
    [name |-> n, category |-> cat, aliases |-> als, parameters |-> params,
     options |-> opts, executor |-> exec]

isExecutable(cmd) == cmd.executor # "none"

hasVariadicParameters(cmd) ==
    cmd.parameters # <<>> /\ cmd.parameters[Len(cmd.parameters)].name = s_variadic

MissingParameter(n) == [ok |-> FALSE, kind |-> "missing", name |-> n, max |-> 0]
TooManyArguments(n) == [ok |-> FALSE, kind |-> "toomany", name |-> <<>>, max |-> n]
Valid == [ok |-> TRUE, kind |-> "none", name |-> <<>>, max |-> 0]

\* requiredLoop with the bound test off by one (i > argCount)
RECURSIVE requiredLoop_offByOne(_, _, _)
requiredLoop_offByOne(params, i, argCount) ==
    IF i > Len(params) THEN Valid
    ELSE IF params[i].required /\ (i - 1) > argCount
         THEN MissingParameter(params[i].name)
         ELSE requiredLoop_offByOne(params, i + 1, argCount)

\* the required-parameter loop of validateArguments from index i (1-based) on
RECURSIVE requiredLoop(_, _, _)
requiredLoop(params, i, argCount) ==
    IF i > Len(params) THEN Valid
    ELSE IF params[i].required /\ (i - 1) >= argCount
         THEN MissingParameter(params[i].name)
         ELSE requiredLoop(params, i + 1, argCount)

\* validateArguments that also rejects an option or flag the command does
\* not declare
validateArguments_checksOptions(cmd, ctx) ==
    LET argCount == argumentCount(ctx)
        req == requiredLoop(cmd.parameters, 1, argCount)
        declared == {cmd.options[j].name : j \in 1..Len(cmd.options)}
                    \cup {cmd.options[j].shortName : j \in 1..Len(cmd.options)}
    IN IF ~req.ok THEN req
       ELSE IF ~hasVariadicParameters(cmd) /\ argCount > Len(cmd.parameters)
            THEN TooManyArguments(Len(cmd.parameters))
            ELSE IF (DOMAIN ctx.options \cup ctx.flags) \subseteq declared
                 THEN Valid
                 ELSE [ok |-> FALSE, kind |-> "unknownoption", name |-> <<>>, max |-> 0]

validateArguments(cmd, ctx) ==
    LET argCount == argumentCount(ctx)
        req == requiredLoop(cmd.parameters, 1, argCount)
    IN IF ~req.ok THEN req
       ELSE IF ~hasVariadicParameters(cmd) /\ argCount > Len(cmd.parameters)
            THEN TooManyArguments(Len(cmd.parameters))
            ELSE Valid

\* execute that reports success when no executor is installed
execute_missingSucceeds(cmd, beh) ==
    IF cmd.executor = "none" THEN [called |-> FALSE, outcome |-> "true"]
    ELSE IF cmd.executor = "user" THEN [called |-> TRUE, outcome |-> beh]
         ELSE [called |-> TRUE, outcome |-> "true"]

\* the outcome of CommandDefinition::execute under handler behaviour beh:
\* returned is "true" or "false", or "throw_std" / "throw_other" when the
\* handler throws a std::exception or an object of any other type
execute(cmd, beh) ==
    IF cmd.executor = "none" THEN [called |-> FALSE, outcome |-> "false"]
    ELSE IF cmd.executor = "user" THEN [called |-> TRUE, outcome |-> beh]
         ELSE [called |-> TRUE, outcome |-> "true"]

HandlerBehaviours == {"true", "false", "throw_std", "throw_other"}

\* ------------------------------------------------------------------------
\* CommandManager: the registry
\* ------------------------------------------------------------------------
EmptyRegistry ==
    [commands |-> EmptyMap, aliasToCommand |-> EmptyMap, categoryToCommands |-> EmptyMap]

\* an alias loop that enters an alias only when it is not a key yet
RECURSIVE aliasLoop_keepFirst(_, _, _)
aliasLoop_keepFirst(aliasMap, cmd, i) ==
    IF i > Len(cmd.aliases) THEN aliasMap
    ELSE LET alias == cmd.aliases[i] IN
         IF alias # <<>> /\ alias # cmd.name
         THEN aliasLoop_keepFirst(Put_keepFirst(aliasMap, alias, cmd.name), cmd, i + 1)
         ELSE aliasLoop_keepFirst(aliasMap, cmd, i + 1)

\* an alias loop that enters nothing
aliasLoop_none(aliasMap, cmd, i) == aliasMap

\* the alias loop of registerCommand from alias i on
RECURSIVE aliasLoop(_, _, _)
aliasLoop(aliasMap, cmd, i) ==
    IF i > Len(cmd.aliases) THEN aliasMap
    ELSE LET alias == cmd.aliases[i] IN
         IF alias # <<>> /\ alias # cmd.name
         THEN aliasLoop(Put(aliasMap, alias, cmd.name), cmd, i + 1)
         ELSE aliasLoop(aliasMap, cmd, i + 1)

\* categoryToCommands[cat].push_back(name), operator[] creating the list
PushCategory(catMap, cat, name) ==
    Put(catMap, cat, (IF cat \in DOMAIN catMap THEN catMap[cat] ELSE <<>>) \o <<name>>)

\* registerCommand that enters aliases and category before it rejects an
\* empty name
registerCommand_indexesUnnamed(reg, cmd) ==
    LET indexed == [commands |-> reg.commands,
                    aliasToCommand |-> aliasLoop(reg.aliasToCommand, cmd, 1),
                    categoryToCommands |->
                        PushCategory(reg.categoryToCommands, cmd.category, cmd.name)]
    IN IF cmd.name = <<>> THEN [ok |-> FALSE, reg |-> indexed]
       ELSE [ok |-> TRUE,
             reg |-> [indexed EXCEPT !.commands = Put(reg.commands, cmd.name, cmd)]]

\* registerCommand without the check of the name
registerCommand_noNameCheck(reg, cmd) ==
    [ok |-> cmd.name # <<>>,
     reg |-> [commands |-> Put(reg.commands, cmd.name, cmd),
              aliasToCommand |-> aliasLoop(reg.aliasToCommand, cmd, 1),
              categoryToCommands |->
                  PushCategory(reg.categoryToCommands, cmd.category, cmd.name)]]

\* registerCommand storing with insert: a definition already there stays
registerCommand_keepsOld(reg, cmd) ==
    IF cmd.name = <<>> THEN [ok |-> FALSE, reg |-> reg]
    ELSE [ok |-> TRUE,
          reg |-> [commands |-> Put_keepFirst(reg.commands, cmd.name, cmd),
                   aliasToCommand |-> aliasLoop(reg.aliasToCommand, cmd, 1),
                   categoryToCommands |->
                       PushCategory(reg.categoryToCommands, cmd.category, cmd.name)]]

\* registerCommand that first drops the aliases pointing at the name
registerCommand_retracts(reg, cmd) ==
    IF cmd.name = <<>> THEN [ok |-> FALSE, reg |-> reg]
    ELSE LET kept == {a \in DOMAIN reg.aliasToCommand : reg.aliasToCommand[a] # cmd.name}
         IN [ok |-> TRUE,
             reg |-> [commands |-> Put(reg.commands, cmd.name, cmd),
                      aliasToCommand |->
                          aliasLoop([a \in kept |-> reg.aliasToCommand[a]], cmd, 1),
                      categoryToCommands |->
                          PushCategory(reg.categoryToCommands, cmd.category, cmd.name)]]

registerCommand(reg, cmd) ==
    IF cmd.name = <<>> THEN [ok |-> FALSE, reg |-> reg]
    ELSE [ok |-> TRUE,
          reg |-> [commands |-> Put(reg.commands, cmd.name, cmd),
                   aliasToCommand |-> aliasLoop(reg.aliasToCommand, cmd, 1),
                   categoryToCommands |->
                       PushCategory(reg.categoryToCommands, cmd.category, cmd.name)]]

helpCmd ==
    CommandDefinition(s_help, s_General, <<s_qmark>>, <<Param(s_command, FALSE)>>,
                      <<>>, "help")
listCmd ==
    CommandDefinition(s_list, s_General, <<>>, <<>>,
                      <<Option(s_category, s_c, FALSE)>>, "list")

\* setupBuiltinCommands that registers help only
setupBuiltinCommands_helpOnly(reg) == registerCommand(reg, helpCmd).reg

setupBuiltinCommands(reg) == registerCommand(registerCommand(reg, helpCmd).reg, listCmd).reg

\* createCommand(name, description) and createCommand(name, description,
\* executor): the definition is stored and listed under its category
\* "General"; no name check is made and no alias is entered
createCommand(reg, name, exec) ==
    LET cmd == CommandDefinition(name, s_General, <<>>, <<>>, <<>>, exec)
    IN [commands |-> Put(reg.commands, name, cmd),
        aliasToCommand |-> reg.aliasToCommand,
        categoryToCommands |-> PushCategory(reg.categoryToCommands, cmd.category, name)]

\* the characters of the model's strings in the order of their char values
Alphabet ==
    <<"\t", " ", DQ, "-", ".", "=", "?", "A", "G", "T", "a", "b", "c", "d", "e", "h", "i",
      "k", "l", "m", "n", "p", "q", "s", "t", "x">>
CharValue(ch) == CHOOSE i \in 1..Len(Alphabet) : Alphabet[i] = ch

\* std::less<std::string>: a < b
RECURSIVE StringLess(_, _)
StringLess(a, b) ==
    IF b = <<>> THEN FALSE
    ELSE IF a = <<>> THEN TRUE
    ELSE IF Head(a) = Head(b) THEN StringLess(Tail(a), Tail(b))
    ELSE CharValue(Head(a)) < CharValue(Head(b))

\* the keys of a std::map in iteration order
RECURSIVE KeysInOrder(_)
KeysInOrder(keys) ==
    IF keys = {} THEN <<>>
    ELSE LET least == CHOOSE k \in keys : \A o \in keys \ {k} : StringLess(k, o)
         IN <<least>> \o KeysInOrder(keys \ {least})

\* getCommandList(): cmd.first of every pair of commands, in map order
getCommandList(reg) == KeysInOrder(DOMAIN reg.commands)

\* findCommand consulting aliasToCommand before commands
findCommand_aliasFirst(reg, name) ==
    IF name \in DOMAIN reg.aliasToCommand /\ reg.aliasToCommand[name] \in DOMAIN reg.commands
    THEN <<reg.commands[reg.aliasToCommand[name]]>>
    ELSE IF name \in DOMAIN reg.commands THEN <<reg.commands[name]>> ELSE <<>>

\* findCommand without the alias lookup
findCommand_noAlias(reg, name) ==
    IF name \in DOMAIN reg.commands THEN <<reg.commands[name]>> ELSE <<>>

\* findCommand: the definition found, as a sequence of length one, or <<>>
\* for nullptr
findCommand(reg, name) ==
    IF name \in DOMAIN reg.commands THEN <<reg.commands[name]>>
    ELSE IF name \in DOMAIN reg.aliasToCommand
            /\ reg.aliasToCommand[name] \in DOMAIN reg.commands
         THEN <<reg.commands[reg.aliasToCommand[name]]>>
         ELSE <<>>

\* ------------------------------------------------------------------------
\* CommandManager: the dispatcher
\* ------------------------------------------------------------------------
\* One call of processCommand. steps lists what the call did after the
\* empty-name check, in order; invoked lists the commands whose handler was
\* called and returned what that handler did; result is "true" or "false",
\* or "escaped" when an exception leaves processCommand.
Outcome(res, st, inv, ret, val, flt) ==
    [result |-> res, steps |-> st, invoked |-> inv, returned |-> ret,
     validation |-> val, fault |-> flt]

NotValidated == [ok |-> FALSE, kind |-> "skipped", name |-> <<>>, max |-> 0]

\* tryExecute with a catch block that reports success
tryExecute_catchSucceeds(cmdDef, val, beh) ==
    LET ex == execute(cmdDef, beh)
        inv == IF ex.called THEN <<cmdDef.name>> ELSE <<>>
        ret == IF ex.called THEN ex.outcome ELSE "none"
        st == <<"lookup", "validate", "execute">>
    IN IF ex.outcome = "throw_std" THEN Outcome("true", st, inv, ret, val, "caught")
       ELSE IF ex.outcome = "throw_other"
            THEN Outcome("escaped", st, inv, ret, val, "escaped")
            ELSE Outcome(ex.outcome, st, inv, ret, val, "none")

\* the try block of processCommand: catch (const std::exception&) is its
\* only handler
tryExecute(cmdDef, val, beh) ==
    LET ex == execute(cmdDef, beh)
        inv == IF ex.called THEN <<cmdDef.name>> ELSE <<>>
        ret == IF ex.called THEN ex.outcome ELSE "none"
        st == <<"lookup", "validate", "execute">>
    IN IF ex.outcome = "throw_std" THEN Outcome("false", st, inv, ret, val, "caught")
       ELSE IF ex.outcome = "throw_other"
            THEN Outcome("escaped", st, inv, ret, val, "escaped")
            ELSE Outcome(ex.outcome, st, inv, ret, val, "none")

\* context.hasFlag("h") || context.hasFlag("help")
helpRequested(ctx) == hasFlag(ctx, s_h) \/ hasFlag(ctx, s_help)

\* dispatchFound with validation ahead of the help check
dispatchFound_validateFirst(cmdDef, ctx, beh) ==
    LET val == validateArguments(cmdDef, ctx) IN
    IF ~val.ok
    THEN Outcome("false", <<"lookup", "validate">>, <<>>, "none", val, "none")
    ELSE IF helpRequested(ctx)
         THEN Outcome("true", <<"lookup", "help">>, <<>>, "none", NotValidated, "none")
         ELSE tryExecute(cmdDef, val, beh)

\* dispatchFound that goes on to the handler after a failed validation
dispatchFound_executesUnvalidated(cmdDef, ctx, beh) ==
    IF helpRequested(ctx)
    THEN Outcome("true", <<"lookup", "help">>, <<>>, "none", NotValidated, "none")
    ELSE tryExecute(cmdDef, validateArguments(cmdDef, ctx), beh)

\* processCommand once findCommand has returned cmdDef
dispatchFound(cmdDef, ctx, beh) ==
    IF helpRequested(ctx)
    THEN Outcome("true", <<"lookup", "help">>, <<>>, "none", NotValidated, "none")
    ELSE LET val == validateArguments(cmdDef, ctx) IN
         IF ~val.ok
         THEN Outcome("false", <<"lookup", "validate">>, <<>>, "none", val, "none")
         ELSE tryExecute(cmdDef, val, beh)

\* processCommand once the command name is known not to be empty
dispatchNamed(reg, ctx, beh) ==
    LET found == findCommand(reg, ctx.commandName) IN
    IF found = <<>>
    THEN Outcome("false", <<"lookup", "suggest">>, <<>>, "none", NotValidated, "none")
    ELSE dispatchFound(found[1], ctx, beh)

NoOp == Outcome("true", <<>>, <<>>, "none", NotValidated, "none")

\* processCommand without the empty-name check
processCommand_noEmptyCheck(reg, ctx, beh) == dispatchNamed(reg, ctx, beh)

processCommand(reg, ctx, beh) ==
    IF ctx.commandName = <<>> THEN NoOp ELSE dispatchNamed(reg, ctx, beh)

NoOutcome == Outcome("none", <<>>, <<>>, "none", NotValidated, "none")

\* processString(input) and processArgs(argc, argv)
processString(reg, line, beh) == processCommand(reg, parseString(line), beh)

processArgs(reg, argv, beh) ==
    IF Len(argv) < 1 THEN NoOp
    ELSE processCommand(reg, parseArgs(argv), beh)

\* b.find(a) == 0
StartsWith(b, a) == Len(a) <= Len(b) /\ SubSeq(b, 1, Len(a)) = a

Min(x, y) == IF x < y THEN x ELSE y
Max(x, y) == IF x < y THEN y ELSE x
Abs(x) == IF x < 0 THEN 0 - x ELSE x

\* the matches loop of isSimilar
Matches(a, b) == Cardinality({i \in 1..Min(Len(a), Len(b)) : a[i] = b[i]})

\* isSimilar accepting a similarity of 0.6 too
isSimilar_atLeast(a, b) ==
    IF a = <<>> \/ b = <<>> THEN FALSE
    ELSE IF StartsWith(b, a) THEN TRUE
    ELSE IF Abs(Len(a) - Len(b)) > 2 THEN FALSE
    ELSE 5 * Matches(a, b) >= 3 * Max(Len(a), Len(b))

\* isSimilar(a, b). The quotient matches / max is a correctly rounded double
\* and so is the literal 0.6: the quotient exceeds it exactly when
\* 5 * matches > 3 * max
isSimilar(a, b) ==
    IF a = <<>> \/ b = <<>> THEN FALSE
    ELSE IF StartsWith(b, a) THEN TRUE
    ELSE IF Abs(Len(a) - Len(b)) > 2 THEN FALSE
    ELSE 5 * Matches(a, b) > 3 * Max(Len(a), Len(b))

\* suggestions.size() >= config.maxSuggestions: the int is converted to
\* size_t, a negative limit becomes a value no size reaches
sizeReaches(size, max) == IF max < 0 THEN FALSE ELSE size >= max

\* the collecting loop of handleUnknownCommand over the keys of commands
RECURSIVE collectSimilar(_, _, _, _)
collectSimilar(names, cmdName, max, suggestions) ==
    IF names = <<>> THEN suggestions
    ELSE IF isSimilar(cmdName, Head(names))
         THEN LET pushed == Append(suggestions, Head(names))
              IN IF sizeReaches(Len(pushed), max) THEN pushed
                 ELSE collectSimilar(Tail(names), cmdName, max, pushed)
         ELSE collectSimilar(Tail(names), cmdName, max, suggestions)

\* handleUnknownCommand(cmdName): the suggestions it prints
handleUnknownCommand(reg, cmdName, max) ==
    collectSimilar(getCommandList(reg), cmdName, max, <<>>)

\* what processCommand prints as suggestions: it calls handleUnknownCommand
\* when the name is not empty and findCommand finds nothing
unknownShown(reg, ctx, max) ==
    IF ctx.commandName # <<>> /\ findCommand(reg, ctx.commandName) = <<>>
    THEN handleUnknownCommand(reg, ctx.commandName, max)
    ELSE <<>>

\* ------------------------------------------------------------------------
\* processArgLoop
\* ------------------------------------------------------------------------
\* while (i + 1 < argc && argv[i + 1][0] != '-'): the number of tokens the
\* inner loop collects from position j on
RECURSIVE collectRun(_, _)
collectRun(argv, j) ==
    IF j > Len(argv) \/ FirstChar(argv[j]) = "-" THEN 0
    ELSE 1 + collectRun(argv, j + 1)

\* one dispatch of a loop: the context it was made with and what it did
Dispatch(ctx, out) == [context |-> ctx, outcome |-> out]

\* the for loop of processArgLoop from position i on (argv[i - 1] of the
\* source); behs[k] is what the handler of the k-th dispatch does; an
\* exception that leaves processCommand leaves the loop as well
RECURSIVE argLoop(_, _, _, _, _, _)
argLoop(reg, argv, i, behs, done, allSuccess) ==
    IF i > Len(argv)
    THEN [status |-> "returned", result |-> IF allSuccess THEN "true" ELSE "false",
          log |-> done]
    ELSE IF FirstChar(argv[i]) = "-"
    THEN argLoop(reg, argv, i + 1, behs, done, allSuccess)
    ELSE LET n == collectRun(argv, i + 1)
             ctx == [commandName |-> argv[i], options |-> EmptyMap, flags |-> {},
                     args |-> SubSeq(argv, i + 1, i + n)]
             out == processCommand(reg, ctx, behs[Len(done) + 1])
         IN IF out.result = "escaped"
            THEN [status |-> "escaped", result |-> "none",
                  log |-> Append(done, Dispatch(ctx, out))]
            ELSE argLoop(reg, argv, i + n + 1, behs, Append(done, Dispatch(ctx, out)),
                         allSuccess /\ out.result = "true")

\* bool processArgLoop(int argc, char* argv[])
processArgLoop(reg, argv, behs) == argLoop(reg, argv, 2, behs, <<>>, TRUE)

\* ------------------------------------------------------------------------
\* State
\* ------------------------------------------------------------------------
VARIABLES
    commands,            \* CommandManager::commands
    aliasToCommand,      \* CommandManager::aliasToCommand
    categoryToCommands,  \* CommandManager::categoryToCommands
    regs,                \* registerCommand calls made so far
    input,               \* the raw input handed to the program
    context,             \* the CommandContext built from the input
    outcome,             \* what the dispatch call did and returned
    subject,             \* the CommandDefinition handed to validateArguments
    verdict,             \* what that validateArguments call returned
    call,                \* the last registry operation and what it returned
    maxSuggestions,      \* config.maxSuggestions
    shown,               \* the suggestions the last dispatch printed
    stdin,               \* the lines std::cin still holds
    loop,                \* how the last loop call stands and what it returned
    log,                 \* the dispatches that loop call made, in order
    pc                   \* "setup", then "parsed", "validated", "loop" or "done"

vars == <<commands, aliasToCommand, categoryToCommands, regs, input, context,
          outcome, subject, verdict, call, maxSuggestions, shown, stdin, loop, log, pc>>

registryVars == <<commands, aliasToCommand, categoryToCommands>>
suggestVars == <<maxSuggestions, shown>>
loopVars == <<stdin, loop, log>>

Registry ==
    [commands |-> commands, aliasToCommand |-> aliasToCommand,
     categoryToCommands |-> categoryToCommands]

ArgsInput(argv) == [mode |-> "args", argv |-> argv, line |-> <<>>]
LineInput(line) == [mode |-> "line", argv |-> <<>>, line |-> line]

\* the context the program builds from an input
ContextOf(in) == IF in.mode = "args" THEN parseArgs(in.argv) ELSE parseString(in.line)

\* a registry call: the operation, the definition or name it was given, and
\* what it returned
Call(op, cmd, name, ok, found) ==
    [op |-> op, cmd |-> cmd, name |-> name, ok |-> ok, found |-> found]
NoCall == Call("none", CommandDefinition(<<>>, s_General, <<>>, <<>>, <<>>, "none"),
               <<>>, FALSE, <<>>)

\* a loop call that has not been made
NoLoop == [status |-> "idle", result |-> "none"]

\* no operation has been called and no input is pending
Idle ==
    /\ regs = 0
    /\ context = EmptyContext
    /\ outcome = NoOutcome
    /\ verdict = NotValidated
    /\ call = NoCall
    /\ shown = <<>>
    /\ stdin = <<>>
    /\ loop = NoLoop
    /\ log = <<>>
    /\ pc = "setup"

\* the state CommandManager() leaves
Constructed ==
    LET reg == setupBuiltinCommands(EmptyRegistry)
    IN /\ commands = reg.commands
       /\ aliasToCommand = reg.aliasToCommand
       /\ categoryToCommands = reg.categoryToCommands
       /\ maxSuggestions = DEFAULT_MAX_SUGGESTIONS
       /\ Idle

\* ------------------------------------------------------------------------
\* Inputs
\* ------------------------------------------------------------------------
t_h == <<"-", "h">>
t_help == <<"-", "-", "h", "e", "l", "p">>
t_x == <<"-", "x">>
t_k == <<"-", "k">>
t_xk == <<"-", "x", "k">>
t_kk == <<"-", "-", "k">>
t_kk_b == <<"-", "-", "k", "=", "b">>
t_kk_ == <<"-", "-", "k", "=">>
t_kk_a_b == <<"-", "-", "k", "=", "a", "=", "b">>

\* argument vectors and lines handed to the dispatcher
DCmdTokens == {s_c, s_qmark, s_empty}
DArgTokens == {s_a, t_h, t_help, s_ddash, t_x}
DArgvs ==
    {<<>>} \cup {<<c>> \o rest : c \in DCmdTokens, rest \in SeqsUpTo(DArgTokens, MaxDArgs)}
DLineChunks ==
    {<<"c", " ">>, <<"-", "h", " ">>, <<"a", " ">>, <<" ">>, <<DQ>>, <<DQ, "a", " ">>}
DLines == {Flatten(cs) : cs \in SeqsUpTo(DLineChunks, MaxDChunks)}
DInputs == {ArgsInput(argv) : argv \in DArgvs} \cup {LineInput(line) : line \in DLines}

\* argument vectors and lines handed to the CommandContext constructors
PCmdTokens == {s_c, t_k}
PArgTokens ==
    {s_a, s_empty, s_dash, s_ddash, t_k, t_kk, t_kk_b, t_kk_, t_kk_a_b, t_xk}
PArgvs ==
    {<<>>} \cup {<<c>> \o rest : c \in PCmdTokens, rest \in SeqsUpTo(PArgTokens, MaxArgs)}
PLineChunks ==
    {<<"c", " ">>, <<" ">>, <<"\t">>, <<DQ>>, <<"a">>, <<DQ, "a", " ">>, <<"a", DQ, " ">>,
     <<"-", "k", " ">>, <<"-", "-", "k", "=", "b">>}
PLines == {Flatten(cs) : cs \in SeqsUpTo(PLineChunks, MaxChunks)}
PInputs == {ArgsInput(argv) : argv \in PArgvs} \cup {LineInput(line) : line \in PLines}

\* command definitions the application registers
RegEntries ==
    {CommandDefinition(s_c, s_General, <<>>, <<>>, <<>>, "user"),
     CommandDefinition(s_c, s_General, <<s_a>>, <<Param(s_p, TRUE)>>,
                       <<Option(s_help, s_h, FALSE)>>, "user"),
     CommandDefinition(s_c, s_General, <<>>,
                       <<Param(s_p, TRUE), Param(s_variadic, FALSE)>>, <<>>, "user"),
     CommandDefinition(s_c, s_General, <<>>, <<Param(s_p, FALSE)>>, <<>>, "none")}

\* definitions and names handed to the registry operations
AliasLists == {<<>>, <<s_x>>, <<s_list>>, <<s_empty, s_n, s_m>>}
RegistryEntries ==
    {CommandDefinition(s_n, cat, als, <<>>, <<>>, exec) :
        cat \in {s_General, s_Tools}, als \in AliasLists, exec \in {"user", "none"}}
    \cup {CommandDefinition(s_m, s_General, <<>>, <<>>, <<>>, "user"),
          CommandDefinition(s_m, s_General, <<s_list>>, <<>>, <<>>, "user"),
          CommandDefinition(s_m, s_Tools, <<s_n, s_x>>, <<>>, <<>>, "none"),
          CommandDefinition(s_empty, s_General, <<>>, <<>>, <<>>, "user"),
          CommandDefinition(s_empty, s_Tools, <<s_x>>, <<>>, <<>>, "user")}
CreateNames == {s_n, s_m, s_empty}
Probes == {s_n, s_m, s_x, s_list, s_empty, s_q}

\* typed names and candidate names of the suggestion scan, and the command
\* sets an application has created before it dispatches
SimStrings == SeqsUpTo({"a", "A"}, MaxSimLen)
SuggestApps ==
    {<<b>> : b \in SimStrings}
    \cup {<< <<"a", "a">>, <<"a", "A">>, <<"a", "a", "a">> >>}
SuggestInputs == {ArgsInput(<<q>>) : q \in SimStrings}
Limits == {0, 2}

\* the lines a user types into the interactive loop
ILines ==
    {s_empty, s_help, s_list, s_exit, s_quit, s_c, <<"c", " ", "a">>, s_q, <<" ">>,
     <<"h", "e", "l", "p", " ">>}
IStreams == SeqsUpTo(ILines, MaxLines)

\* argument vectors handed to processArgLoop
LTokens == {s_c, s_q, s_a, t_x, s_empty}
LArgvs == {<<>>} \cup {<<s_c>> \o rest : rest \in SeqsUpTo(LTokens, MaxLoopArgs)}
LBehaviours == [1..MaxLoopArgs -> HandlerBehaviours]

\* parameter lists and invocations handed to validateArguments
ParamNames == {s_p, s_q, s_variadic}
ParamLists == SeqsUpTo({Param(n, r) : n \in ParamNames, r \in BOOLEAN}, MaxParams)
Subjects == {CommandDefinition(s_c, s_General, <<>>, ps, <<>>, "user") : ps \in ParamLists}
Positionals == {[i \in 1..k |-> s_a] : k \in 0..MaxPos}
VContexts ==
    {[commandName |-> s_c, options |-> EmptyMap, flags |-> {}, args |-> as] :
        as \in Positionals}

\* ------------------------------------------------------------------------
\* Operations
\* ------------------------------------------------------------------------
\* the handler behaviours that make a difference to this dispatch
Behaviours(in) ==
    LET found == findCommand(Registry, ContextOf(in).commandName)
    IN IF found # <<>> /\ found[1].executor = "user" THEN HandlerBehaviours ELSE {"true"}

\* bool registerCommand(const CommandDefinition& cmd), during setup
RegisterCommand(cmd) ==
    /\ pc = "setup"
    /\ regs < MaxRegs
    /\ LET r == registerCommand(Registry, cmd)
       IN /\ commands' = r.reg.commands
          /\ aliasToCommand' = r.reg.aliasToCommand
          /\ categoryToCommands' = r.reg.categoryToCommands
    /\ regs' = regs + 1
    /\ UNCHANGED <<input, context, outcome, subject, verdict, call, suggestVars, loopVars, pc>>

\* bool processArgs(int argc, char* argv[])
ProcessArgs(beh) ==
    /\ pc = "setup"
    /\ input.mode = "args"
    /\ context' = parseArgs(input.argv)
    /\ outcome' = processArgs(Registry, input.argv, beh)
    /\ shown' = unknownShown(Registry, parseArgs(input.argv), maxSuggestions)
    /\ pc' = "done"
    /\ UNCHANGED <<registryVars, regs, input, subject, verdict, call, maxSuggestions, loopVars>>

\* bool processString(const std::string& input)
ProcessString(beh) ==
    /\ pc = "setup"
    /\ input.mode = "line"
    /\ context' = parseString(input.line)
    /\ outcome' = processString(Registry, input.line, beh)
    /\ shown' = unknownShown(Registry, parseString(input.line), maxSuggestions)
    /\ pc' = "done"
    /\ UNCHANGED <<registryVars, regs, input, subject, verdict, call, maxSuggestions, loopVars>>

\* CommandContext(int argc, char* argv[])
ConstructFromArgs ==
    /\ pc = "setup"
    /\ input.mode = "args"
    /\ context' = parseArgs(input.argv)
    /\ pc' = "parsed"
    /\ UNCHANGED <<registryVars, regs, input, outcome, subject, verdict, call, suggestVars, loopVars>>

\* CommandContext(const std::string& input)
ConstructFromString ==
    /\ pc = "setup"
    /\ input.mode = "line"
    /\ context' = parseString(input.line)
    /\ pc' = "parsed"
    /\ UNCHANGED <<registryVars, regs, input, outcome, subject, verdict, call, suggestVars, loopVars>>

\* bool registerCommand(const CommandDefinition& cmd), its result kept
RegistryRegister(cmd) ==
    /\ pc = "setup"
    /\ regs < MaxOps
    /\ LET r == registerCommand(Registry, cmd)
       IN /\ commands' = r.reg.commands
          /\ aliasToCommand' = r.reg.aliasToCommand
          /\ categoryToCommands' = r.reg.categoryToCommands
          /\ call' = Call("register", cmd, cmd.name, r.ok, <<>>)
    /\ regs' = regs + 1
    /\ UNCHANGED <<input, context, outcome, subject, verdict, suggestVars, loopVars, pc>>

\* CommandDefinition& createCommand(name, description [, executor])
CreateCommand(name, exec) ==
    /\ pc = "setup"
    /\ regs < MaxOps
    /\ LET reg == createCommand(Registry, name, exec)
       IN /\ commands' = reg.commands
          /\ aliasToCommand' = reg.aliasToCommand
          /\ categoryToCommands' = reg.categoryToCommands
          /\ call' = Call("create", reg.commands[name], name, TRUE, <<>>)
    /\ regs' = regs + 1
    /\ UNCHANGED <<input, context, outcome, subject, verdict, suggestVars, loopVars, pc>>

\* the reference the last createCommand call returned is at hand
HoldsReference == call.op \in {"create", "fluent"} /\ call.name \in DOMAIN commands

\* CommandDefinition& addAlias(const std::string& alias) on that reference:
\* aliases.push_back(alias) on the stored definition
AddAlias(alias) ==
    /\ pc = "setup"
    /\ HoldsReference
    /\ Len(commands[call.name].aliases) < MaxAliases
    /\ commands' = [commands EXCEPT ![call.name].aliases = Append(@, alias)]
    /\ call' = Call("fluent", commands'[call.name], call.name, TRUE, <<>>)
    /\ UNCHANGED <<aliasToCommand, categoryToCommands, regs, input, context, outcome,
                   subject, verdict, suggestVars, loopVars, pc>>

\* CommandDefinition& setCategory(const std::string& cat) on that reference
SetCategory(cat) ==
    /\ pc = "setup"
    /\ HoldsReference
    /\ commands[call.name].category # cat
    /\ commands' = [commands EXCEPT ![call.name].category = cat]
    /\ call' = Call("fluent", commands'[call.name], call.name, TRUE, <<>>)
    /\ UNCHANGED <<aliasToCommand, categoryToCommands, regs, input, context, outcome,
                   subject, verdict, suggestVars, loopVars, pc>>

\* const CommandDefinition* findCommand(const std::string& name) const
FindCommand(name) ==
    /\ pc = "setup"
    /\ call' = Call("find", NoCall.cmd, name, TRUE, findCommand(Registry, name))
    /\ UNCHANGED <<registryVars, regs, input, context, outcome, subject, verdict, suggestVars, loopVars, pc>>

\* void setMaxSuggestions(int max)
SetMaxSuggestions(max) ==
    /\ pc = "setup"
    /\ maxSuggestions # max
    /\ maxSuggestions' = max
    /\ UNCHANGED <<registryVars, regs, input, context, outcome, subject, verdict, call,
                   shown, loopVars, pc>>

\* bool processArgLoop(int argc, char* argv[])
ProcessArgLoop(behs) ==
    /\ pc = "setup"
    /\ input.mode = "args"
    /\ LET r == processArgLoop(Registry, input.argv, behs)
       IN /\ loop' = [status |-> r.status, result |-> r.result]
          /\ log' = r.log
    /\ pc' = "done"
    /\ UNCHANGED <<registryVars, regs, input, context, outcome, subject, verdict, call,
                   suggestVars, stdin>>

\* void runInteractive(), up to its first std::getline
RunInteractive ==
    /\ pc = "setup"
    /\ loop = NoLoop
    /\ loop' = [status |-> "reading", result |-> "none"]
    /\ pc' = "loop"
    /\ UNCHANGED <<registryVars, regs, input, context, outcome, subject, verdict, call,
                   suggestVars, stdin, log>>

\* a dispatch of the interactive loop: the line read, the context parsed
\* from it and what processString did
LineDispatch(line, out) == [line |-> line, context |-> parseString(line), outcome |-> out]

\* the handler behaviours that make a difference to the next line
LineBehaviours ==
    IF stdin = <<>> THEN {"true"} ELSE Behaviours(LineInput(Head(stdin)))

\* one pass of the while (true) body of runInteractive
ReadLine(beh) ==
    /\ pc = "loop"
    /\ loop.status = "reading"
    /\ IF stdin = <<>>
       THEN /\ loop' = [loop EXCEPT !.status = "eof"]
            /\ pc' = "done"
            /\ UNCHANGED <<stdin, log, context, outcome, shown>>
       ELSE LET line == Head(stdin) IN
            /\ stdin' = Tail(stdin)
            /\ IF line = <<>>
               THEN UNCHANGED <<loop, pc, log, context, outcome, shown>>
               ELSE IF line = s_exit \/ line = s_quit
               THEN /\ loop' = [loop EXCEPT !.status = IF line = s_exit THEN "exit" ELSE "quit"]
                    /\ pc' = "done"
                    /\ UNCHANGED <<log, context, outcome, shown>>
               ELSE IF line = s_help \/ line = s_list
               THEN UNCHANGED <<loop, pc, log, context, outcome, shown>>
               ELSE LET out == processString(Registry, line, beh) IN
                    /\ context' = parseString(line)
                    /\ outcome' = out
                    /\ shown' = unknownShown(Registry, parseString(line), maxSuggestions)
                    /\ log' = Append(log, LineDispatch(line, out))
                    /\ IF out.result = "escaped"
                       THEN /\ loop' = [loop EXCEPT !.status = "escaped"]
                            /\ pc' = "done"
                       ELSE UNCHANGED <<loop, pc>>
    /\ UNCHANGED <<registryVars, regs, input, subject, verdict, call, maxSuggestions>>

\* bool validateArguments(const CommandContext& context, std::string& errorMsg)
ValidateArguments ==
    /\ pc = "setup"
    /\ verdict' = validateArguments(subject, context)
    /\ pc' = "validated"
    /\ UNCHANGED <<registryVars, regs, input, context, outcome, subject, call, suggestVars, loopVars>>

\* ------------------------------------------------------------------------
\* Specifications
\* ------------------------------------------------------------------------
\* the dispatcher: the application registers its commands, then dispatches
\* the input it was given
Init ==
    /\ Constructed
    /\ input \in DInputs
    /\ subject = helpCmd

Next ==
    \/ \E cmd \in RegEntries : RegisterCommand(cmd)
    \/ \E beh \in Behaviours(input) : ProcessArgs(beh)
    \/ \E beh \in Behaviours(input) : ProcessString(beh)

Spec == Init /\ [][Next]_vars

\* the parser alone: a CommandContext is constructed from the input
InitParse ==
    /\ Constructed
    /\ input \in PInputs
    /\ subject = helpCmd

NextParse ==
    \/ ConstructFromArgs
    \/ ConstructFromString

SpecParse == InitParse /\ [][NextParse]_vars

\* validateArguments alone, on every parameter list and positional count
InitValidate ==
    /\ commands = EmptyMap
    /\ aliasToCommand = EmptyMap
    /\ categoryToCommands = EmptyMap
    /\ regs = 0
    /\ input = ArgsInput(<<>>)
    /\ context \in VContexts
    /\ outcome = NoOutcome
    /\ verdict = NotValidated
    /\ call = NoCall
    /\ maxSuggestions = DEFAULT_MAX_SUGGESTIONS
    /\ shown = <<>>
    /\ stdin = <<>>
    /\ loop = NoLoop
    /\ log = <<>>
    /\ subject \in Subjects
    /\ pc = "setup"

NextValidate == ValidateArguments

SpecValidate == InitValidate /\ [][NextValidate]_vars

\* the registry alone: definitions are registered and names are looked up
InitRegistry ==
    /\ Constructed
    /\ input = ArgsInput(<<>>)
    /\ subject = helpCmd

NextRegistry ==
    \/ \E cmd \in RegistryEntries : RegistryRegister(cmd)
    \/ \E name \in CreateNames, exec \in {"none", "user"} : CreateCommand(name, exec)
    \/ \E name \in Probes : FindCommand(name)

SpecRegistry == InitRegistry /\ [][NextRegistry]_vars

\* createCommand for each name of a sequence
RECURSIVE createAll(_, _)
createAll(reg, names) ==
    IF names = <<>> THEN reg
    ELSE createAll(createCommand(reg, Head(names), "user"), Tail(names))

\* the suggestion scan: the application has created its commands, may set
\* the limit, and dispatches a one-word input
InitSuggest ==
    /\ \E names \in SuggestApps :
          LET reg == createAll(setupBuiltinCommands(EmptyRegistry), names)
          IN /\ commands = reg.commands
             /\ aliasToCommand = reg.aliasToCommand
             /\ categoryToCommands = reg.categoryToCommands
    /\ maxSuggestions = DEFAULT_MAX_SUGGESTIONS
    /\ Idle
    /\ input \in SuggestInputs
    /\ subject = helpCmd

NextSuggest ==
    \/ \E max \in Limits : SetMaxSuggestions(max)
    \/ \E beh \in Behaviours(input) : ProcessArgs(beh)

SpecSuggest == InitSuggest /\ [][NextSuggest]_vars

\* the registry built the fluent way: createCommand, then addAlias and
\* setCategory on the reference it returned
InitFluent ==
    /\ Constructed
    /\ input = ArgsInput(<<>>)
    /\ subject = helpCmd

NextFluent ==
    \/ \E name \in CreateNames, exec \in {"none", "user"} : CreateCommand(name, exec)
    \/ \E alias \in {s_x, s_list, s_empty} : AddAlias(alias)
    \/ \E cat \in {s_General, s_Tools} : SetCategory(cat)

SpecFluent == InitFluent /\ [][NextFluent]_vars

\* the interactive loop: the application registers its commands and calls
\* runInteractive, which reads the lines std::cin holds
InitInteractive ==
    LET reg == setupBuiltinCommands(EmptyRegistry)
    IN /\ commands = reg.commands
       /\ aliasToCommand = reg.aliasToCommand
       /\ categoryToCommands = reg.categoryToCommands
       /\ maxSuggestions = DEFAULT_MAX_SUGGESTIONS
       /\ regs = 0
       /\ input = LineInput(<<>>)
       /\ context = EmptyContext
       /\ outcome = NoOutcome
       /\ subject = helpCmd
       /\ verdict = NotValidated
       /\ call = NoCall
       /\ shown = <<>>
       /\ stdin \in IStreams
       /\ loop = NoLoop
       /\ log = <<>>
       /\ pc = "setup"

NextInteractive ==
    \/ \E cmd \in RegEntries : RegisterCommand(cmd)
    \/ RunInteractive
    \/ \E beh \in LineBehaviours : ReadLine(beh)

SpecInteractive == InitInteractive /\ [][NextInteractive]_vars

\* the batch loop: the application registers its commands and hands an
\* argument vector to processArgLoop
InitArgLoop ==
    /\ Constructed
    /\ input \in {ArgsInput(argv) : argv \in LArgvs}
    /\ subject = helpCmd

NextArgLoop ==
    \/ \E cmd \in RegEntries : RegisterCommand(cmd)
    \/ \E behs \in LBehaviours : ProcessArgLoop(behs)

SpecArgLoop == InitArgLoop /\ [][NextArgLoop]_vars

\* ------------------------------------------------------------------------
\* Properties of the dispatcher (Spec)
\* ------------------------------------------------------------------------
Dispatched == pc = "done"

\* the tokens the parser scans: argv, or the tokens of the line
TokensOf(in) == IF in.mode = "args" THEN in.argv ELSE Tokenize(in.line)

\* the command name names a registered command, directly or by alias
Resolves ==
    /\ context.commandName # <<>>
    /\ \/ context.commandName \in DOMAIN commands
       \/ context.commandName \in DOMAIN aliasToCommand

HandlerSucceeded == outcome.invoked # <<>> /\ outcome.returned = "true"

\* C1 (as claimed): a dispatch call returns success if and only if the
\* resolved command's handler was invoked during the call and returned
\* success; resolution and validation failures are reported as false.
C1_Original ==
    Dispatched =>
        /\ outcome.result = "true" <=> HandlerSucceeded
        /\ (context.commandName # <<>> /\ ~Resolves) => outcome.result = "false"
        /\ outcome.validation.kind \in {"missing", "toomany"} => outcome.result = "false"

\* C1 (amended): a dispatch call returns success if and only if the command
\* name is empty, or the name resolves and h or help is among the flags, or
\* the resolved command's handler was invoked and returned success;
\* resolution and validation failures are reported as false.
C1_Dispatch_Result ==
    Dispatched =>
        /\ outcome.result = "true" <=>
              \/ context.commandName = <<>>
              \/ Resolves /\ (s_h \in context.flags \/ s_help \in context.flags)
              \/ HandlerSucceeded
        /\ (context.commandName # <<>> /\ ~Resolves) => outcome.result = "false"
        /\ outcome.validation.kind \in {"missing", "toomany"} => outcome.result = "false"

\* a handler was invoked, returned success, and the call reported success
C1_Witness ==
    /\ Dispatched
    /\ HandlerSucceeded
    /\ outcome.result = "true"

\* C2: when the name resolves and the flags contain h or help, dispatch
\* renders help and returns success without validating and without invoking
\* the handler, even when the positionals would fail validation.
C2_Help_Bypasses_Validation ==
    (Dispatched /\ Resolves /\ (s_h \in context.flags \/ s_help \in context.flags)) =>
        /\ outcome.result = "true"
        /\ outcome.steps = <<"lookup", "help">>
        /\ outcome.invoked = <<>>
        /\ outcome.validation = NotValidated

\* help was rendered for an invocation that has too many positionals
C2_Witness ==
    /\ Dispatched
    /\ Resolves
    /\ s_h \in context.flags \/ s_help \in context.flags
    /\ outcome.result = "true"
    /\ LET cmdDef == findCommand(Registry, context.commandName)[1]
       IN /\ ~hasVariadicParameters(cmdDef)
          /\ Len(context.args) > Len(cmdDef.parameters)

\* the arguments hold -h or --help, and no -- token stands before it
HelpTokenGiven ==
    LET toks == TokensOf(input) IN
    \E i \in 2..Len(toks) :
        /\ toks[i] \in {t_h, t_help}
        /\ \A j \in 2..(i - 1) : toks[j] # s_ddash

\* C3 (as claimed): for every registered command and every input whose
\* arguments contain the token -h or --help before any -- terminator,
\* dispatch returns success and the handler is not invoked, whatever tokens
\* follow the help token.
C3_Original ==
    (Dispatched /\ Resolves /\ HelpTokenGiven) =>
        /\ outcome.result = "true"
        /\ outcome.invoked = <<>>

\* C4 (as claimed): every fault raised inside a handler is caught at the
\* dispatcher boundary: the call returns false and nothing propagates.
C4_Original ==
    (Dispatched /\ outcome.returned \in {"throw_std", "throw_other"}) =>
        /\ outcome.result = "false"
        /\ outcome.fault = "caught"

\* options and flags an invocation may carry besides its positionals; none
\* of the flags is h or help
OptionVariants == {EmptyMap, Put(EmptyMap, s_x, s_a), Put(EmptyMap, s_h, s_a)}
FlagVariants == SUBSET {s_x, s_category}
Variants(ctx) ==
    {[ctx EXCEPT !.options = o, !.flags = f] : o \in OptionVariants, f \in FlagVariants}

\* C6: validation ignores options and flags: invocations of one command
\* with the same positionals and any options and flags (h and help not
\* among the flags) get the same validation result, and when validation
\* passes the handler the command has is invoked for each of them.
C6_Validation_Ignores_Options ==
    (Dispatched /\ Resolves /\ ~helpRequested(context)) =>
        LET cmdDef == findCommand(Registry, context.commandName)[1] IN
        \A other \in Variants(context) : \A beh \in HandlerBehaviours :
            LET o == processCommand(Registry, other, beh) IN
            /\ o.validation = outcome.validation
            /\ o.invoked = outcome.invoked
            /\ (outcome.validation.ok /\ isExecutable(cmdDef)) =>
                  (o.invoked = <<cmdDef.name>> /\ outcome.invoked = <<cmdDef.name>>)

\* an invocation with a flag its command does not declare passed validation
\* and its handler was invoked
C6_Witness ==
    /\ Dispatched
    /\ Resolves
    /\ s_x \in context.flags
    /\ outcome.validation.ok
    /\ outcome.invoked # <<>>

\* the command name is not empty and is neither a primary name nor an alias
Unknown ==
    /\ context.commandName # <<>>
    /\ context.commandName \notin DOMAIN commands
    /\ context.commandName \notin DOMAIN aliasToCommand

\* C7: when the command name is non-empty and matches neither a primary
\* name nor an alias, dispatch returns failure, invokes no handler and leaves
\* the three registry maps unchanged; the suggestion scan runs in this case
\* and in no other.
C7_Unknown_Command ==
    [][(pc = "setup" /\ pc' = "done") =>
          /\ Unknown' => /\ outcome'.result = "false"
                         /\ outcome'.invoked = <<>>
                         /\ UNCHANGED registryVars
          /\ Unknown' <=> (\E i \in 1..Len(outcome'.steps) : outcome'.steps[i] = "suggest")
      ]_vars

\* a dispatch of an unknown name ran the suggestion scan
C7_Witness ==
    /\ Dispatched
    /\ Unknown
    /\ outcome.steps = <<"lookup", "suggest">>

\* the input is an empty or whitespace-only line, or an empty vector
EmptyInput ==
    \/ input.mode = "args" /\ input.argv = <<>>
    \/ input.mode = "line" /\ \A i \in 1..Len(input.line) : IsSpace(input.line[i])

\* C8: empty input is a no-op success: for an empty line, a whitespace-only
\* line or an empty argument vector the invocation has an empty command
\* name and no positionals, options or flags, and dispatch returns success
\* without lookup, suggestion, validation or handler call.
C8_Empty_Input_NoOp ==
    (Dispatched /\ EmptyInput) =>
        /\ context.commandName = <<>>
        /\ context.args = <<>>
        /\ DOMAIN context.options = {}
        /\ context.flags = {}
        /\ outcome.result = "true"
        /\ outcome.steps = <<>>
        /\ outcome.invoked = <<>>

\* a line of nothing but whitespace was dispatched
C8_Witness ==
    /\ Dispatched
    /\ input.mode = "line"
    /\ Len(input.line) > 0
    /\ EmptyInput
    /\ outcome.result = "true"

\* ------------------------------------------------------------------------
\* Properties of validateArguments (SpecValidate)
\* ------------------------------------------------------------------------
\* the 1-based positions of the required parameters that k positionals
\* leave without a value
MissingRequired(params, k) == {i \in 1..Len(params) : params[i].required /\ i > k}

Lowest(S) == CHOOSE i \in S : \A j \in S : i <= j

TooMany(params, k) ==
    /\ k > Len(params)
    /\ Len(params) = 0 \/ params[Len(params)].name # s_variadic

\* C5: validateArguments agrees with the reference: a required parameter
\* with 0-based index i >= k fails it with the missing-parameter message
\* naming the lowest such parameter; otherwise k > n without a trailing
\* "..." parameter fails it with the too-many message carrying n;
\* otherwise it succeeds. One required parameter: fails with zero
\* positionals, succeeds with one. The two failures never both apply.
C5_Validate_Reference ==
    pc = "validated" =>
        LET params == subject.parameters
            k == Len(context.args)
            missing == MissingRequired(params, k)
        IN /\ verdict =
                 IF missing # {} THEN MissingParameter(params[Lowest(missing)].name)
                 ELSE IF TooMany(params, k) THEN TooManyArguments(Len(params))
                      ELSE Valid
           /\ ~(missing # {} /\ TooMany(params, k))
           /\ (Len(params) = 1 /\ params[1].required) =>
                 /\ k = 0 => verdict = MissingParameter(params[1].name)
                 /\ k = 1 => verdict = Valid

\* two required parameters were missing and the first one was named
C5_Witness ==
    /\ pc = "validated"
    /\ Cardinality(MissingRequired(subject.parameters, Len(context.args))) = 2
    /\ subject.parameters[1].name # subject.parameters[2].name
    /\ verdict = MissingParameter(subject.parameters[1].name)

\* ------------------------------------------------------------------------
\* Properties of the parser (SpecParse)
\* ------------------------------------------------------------------------
Parsed == pc = "parsed"

Toks == TokensOf(input)

StartsWithDash(t) == Len(t) > 0 /\ t[1] = "-"

HasEq(t) == \E i \in 1..Len(t) : t[i] = "="

\* --key without "=", and -c
IsLongPlain(t) == Len(t) > 2 /\ t[1] = "-" /\ t[2] = "-" /\ ~HasEq(t)
IsShortSingle(t) == Len(t) = 2 /\ t[1] = "-" /\ t[2] # "-"
\* --key=value
IsLongEq(t) == Len(t) > 2 /\ t[1] = "-" /\ t[2] = "-" /\ HasEq(t)

\* the text of --key=value before and after its first "="
EqKey(t) == LET body == SubSeq(t, 3, Len(t))
                e == CHOOSE i \in 1..Len(body) :
                         body[i] = "=" /\ \A j \in 1..(i - 1) : body[j] # "="
            IN SubSeq(body, 1, e - 1)
EqValue(t) == LET body == SubSeq(t, 3, Len(t))
                  e == CHOOSE i \in 1..Len(body) :
                           body[i] = "=" /\ \A j \in 1..(i - 1) : body[j] # "="
              IN SubSeq(body, e + 1, Len(body))

\* the key an option token names
KeyOf(t) ==
    IF IsShortSingle(t) THEN <<t[2]>>
    ELSE IF IsLongEq(t) THEN EqKey(t) ELSE SubSeq(t, 3, Len(t))

\* the position of the first -- token after the command name, or one past
\* the last token
Terminator(toks) ==
    IF \E i \in 2..Len(toks) : toks[i] = s_ddash
    THEN CHOOSE i \in 2..Len(toks) :
             toks[i] = s_ddash /\ \A j \in 2..(i - 1) : toks[j] # s_ddash
    ELSE Len(toks) + 1

\* position i holds a --key or -c token that the scan reaches
TakesValueOrFlag(toks, i) ==
    /\ i \in 2..(Terminator(toks) - 1)
    /\ IsLongPlain(toks[i]) \/ IsShortSingle(toks[i])

\* the token after position i exists and does not begin with "-"
ValueFollows(toks, i) == i + 1 <= Len(toks) /\ ~StartsWithDash(toks[i + 1])

\* -xyz: two or more characters after the single dash
IsBundle(t) == Len(t) > 2 /\ t[1] = "-" /\ t[2] # "-"

\* some option token other than the one at i that the scan reaches names key
NamedElsewhere(toks, i, key) ==
    \E j \in 2..(Terminator(toks) - 1) :
        /\ j # i
        /\ \/ /\ IsLongPlain(toks[j]) \/ IsShortSingle(toks[j]) \/ IsLongEq(toks[j])
              /\ KeyOf(toks[j]) = key
           \/ /\ IsBundle(toks[j])
              /\ \E n \in 2..Len(toks[j]) : key = <<toks[j][n]>>

\* position j holds a token that belongs to the positionals
IsPositional(toks, j) ==
    IF j > Terminator(toks) THEN TRUE
    ELSE IF j = Terminator(toks) THEN FALSE
    ELSE IF StartsWithDash(toks[j]) THEN Len(toks[j]) = 1
    ELSE ~(TakesValueOrFlag(toks, j - 1))

RECURSIVE PositionalsFrom(_, _)
PositionalsFrom(toks, j) ==
    IF j > Len(toks) THEN <<>>
    ELSE (IF IsPositional(toks, j) THEN <<toks[j]>> ELSE <<>>)
         \o PositionalsFrom(toks, j + 1)

IsEqOption(toks, i) == i \in 2..(Terminator(toks) - 1) /\ IsLongEq(toks[i])

\* C10: for a long option token containing "=", the text after -- is split
\* at the first "=" into key and value and options[key] = value (the value
\* may contain "=" or be empty); the key is not added to flags and the
\* following token is not consumed: it is parsed on its own.
C10_Long_Option_Eq ==
    Parsed =>
        \A i \in 2..Len(Toks) : IsEqOption(Toks, i) =>
            LET key == EqKey(Toks[i]) IN
            /\ key \in DOMAIN context.options
            /\ ~NamedElsewhere(Toks, i, key) =>
                  (context.options[key] = EqValue(Toks[i]) /\ key \notin context.flags)
            /\ (i + 1 <= Len(Toks) /\ ~StartsWithDash(Toks[i + 1])) =>
                  /\ IsPositional(Toks, i + 1)
                  /\ \E n \in 1..Len(context.args) : context.args[n] = Toks[i + 1]
            /\ Len(context.args) =
                  Cardinality({j \in 2..Len(Toks) : IsPositional(Toks, j)})

\* --k=a=b gave options[k] = a=b and the word after it became a positional
C10_Witness ==
    /\ Parsed
    /\ Len(Toks) >= 3
    /\ Toks[2] = t_kk_a_b
    /\ ~StartsWithDash(Toks[3])
    /\ context.options[s_k] = <<"a", "=", "b">>
    /\ context.args # <<>>
    /\ context.args[1] = Toks[3]

\* position i holds a -xyz token that the scan reaches
IsScannedBundle(toks, i) == i \in 2..(Terminator(toks) - 1) /\ IsBundle(toks[i])

\* C11: for a short-option token with two or more characters after the
\* leading "-", every character becomes a flag, no entry is added to
\* options, and the token that follows is not consumed as a value: a plain
\* word after it becomes a positional.
C11_Bundled_Short_Flags ==
    Parsed =>
        \A i \in 2..Len(Toks) : IsScannedBundle(Toks, i) =>
            /\ \A n \in 2..Len(Toks[i]) :
                  /\ <<Toks[i][n]>> \in context.flags
                  /\ ~NamedElsewhere(Toks, i, <<Toks[i][n]>>) =>
                        <<Toks[i][n]>> \notin DOMAIN context.options
            /\ (i + 1 <= Len(Toks) /\ ~StartsWithDash(Toks[i + 1])) =>
                  /\ IsPositional(Toks, i + 1)
                  /\ \E n \in 1..Len(context.args) : context.args[n] = Toks[i + 1]
            /\ Len(context.args) =
                  Cardinality({j \in 2..Len(Toks) : IsPositional(Toks, j)})

\* -xk followed by a plain word: flags x and k, and the word is a positional
C11_Witness ==
    /\ Parsed
    /\ Len(Toks) = 3
    /\ Toks[2] = t_xk
    /\ Toks[3] = s_a
    /\ context.flags = {s_x, s_k}
    /\ DOMAIN context.options = {}
    /\ context.args = <<s_a>>

\* the scan reaches a "--" token
Terminated(toks) == Terminator(toks) <= Len(toks)

\* some option token before the terminator names key
NamedBeforeTerminator(toks, key) == NamedElsewhere(toks, 0, key)

\* C12: when the scan reaches a token exactly equal to "--", every later
\* token, dash-prefixed ones and further "--" tokens included, is appended
\* verbatim and in order to the positionals, the "--" itself is not added,
\* and no option or flag is set from a token after it.
C12_Terminator ==
    (Parsed /\ Terminated(Toks)) =>
        LET T == Terminator(Toks)
            rest == SubSeq(Toks, T + 1, Len(Toks))
            before == Cardinality({j \in 2..(T - 1) : IsPositional(Toks, j)})
        IN /\ Len(context.args) = before + Len(rest)
           /\ SubSeq(context.args, before + 1, Len(context.args)) = rest
           /\ \A key \in DOMAIN context.options \cup context.flags :
                 NamedBeforeTerminator(Toks, key)

\* c -- -- -k: the second "--" and -k are positionals, k is no flag
C12_Witness ==
    /\ Parsed
    /\ Toks = <<s_c, s_ddash, s_ddash, t_k>>
    /\ context.args = <<s_ddash, t_k>>
    /\ context.flags = {}
    /\ DOMAIN context.options = {}

\* a is b with zero or more elements left out, the order kept
RECURSIVE IsSubseq(_, _)
IsSubseq(a, b) ==
    IF a = <<>> THEN TRUE
    ELSE IF b = <<>> THEN FALSE
    ELSE IF Head(a) = Head(b) THEN IsSubseq(Tail(a), Tail(b))
    ELSE IsSubseq(a, Tail(b))

NoDashToken(toks) == \A j \in 2..Len(toks) : ~StartsWithDash(toks[j])

Binds(toks, i) ==
    /\ i \in 2..(Terminator(toks) - 1)
    /\ \/ IsLongEq(toks[i])
       \/ TakesValueOrFlag(toks, i) /\ ValueFollows(toks, i)

BoundValue(toks, i) == IF IsLongEq(toks[i]) THEN EqValue(toks[i]) ELSE toks[i + 1]

\* C14: when an option key receives a value more than once, in any mix of
\* --key=value, --key value and -k value, options holds one entry for the
\* key and its value is that of the last occurrence.
C14_Last_Value_Wins ==
    Parsed =>
        /\ \A i \in 2..Len(Toks) : Binds(Toks, i) =>
              /\ KeyOf(Toks[i]) \in DOMAIN context.options
              /\ (\A j \in (i + 1)..Len(Toks) :
                      ~(Binds(Toks, j) /\ KeyOf(Toks[j]) = KeyOf(Toks[i]))) =>
                    context.options[KeyOf(Toks[i])] = BoundValue(Toks, i)
        /\ \A key \in DOMAIN context.options :
              \E i \in 2..Len(Toks) : Binds(Toks, i) /\ KeyOf(Toks[i]) = key

\* c --k=b -k a: the key k is bound twice and keeps the second value
C14_Witness ==
    /\ Parsed
    /\ Toks = <<s_c, t_kk_b, t_k, s_a>>
    /\ Binds(Toks, 2) /\ Binds(Toks, 3)
    /\ BoundValue(Toks, 2) # BoundValue(Toks, 3)
    /\ DOMAIN context.options = {s_k}
    /\ context.options[s_k] = s_a

\* the whitespace-separated words of a line from position i on
RECURSIVE RefWords(_, _)
RefWords(line, i) ==
    IF i > Len(line) THEN <<>>
    ELSE IF line[i] \in {" ", "\t"} THEN RefWords(line, i + 1)
    ELSE LET e == CHOOSE j \in i..Len(line) :
                      /\ \A n \in i..j : line[n] \notin {" ", "\t"}
                      /\ j = Len(line) \/ line[j + 1] \in {" ", "\t"}
         IN <<SubSeq(line, i, e)>> \o RefWords(line, e + 1)

RECURSIVE JoinSpace(_)
JoinSpace(ws) ==
    IF Len(ws) = 1 THEN ws[1] ELSE ws[1] \o <<" ">> \o JoinSpace(Tail(ws))

OpensQuote(w) == w[1] = DQ /\ w[Len(w)] # DQ
ClosesQuote(w) == w[Len(w)] = DQ

\* a word that opens a quote takes the words after it through the first one
\* that ends in a quote, or through the last word when none does
RECURSIVE RefGroup(_)
RefGroup(ws) ==
    IF ws = <<>> THEN <<>>
    ELSE IF OpensQuote(ws[1])
         THEN LET k == IF \E j \in 2..Len(ws) : ClosesQuote(ws[j])
                       THEN CHOOSE j \in 2..Len(ws) :
                                /\ ClosesQuote(ws[j])
                                /\ \A n \in 2..(j - 1) : ~ClosesQuote(ws[n])
                       ELSE Len(ws)
              IN <<JoinSpace(SubSeq(ws, 1, k))>> \o RefGroup(SubSeq(ws, k + 1, Len(ws)))
         ELSE <<ws[1]>> \o RefGroup(Tail(ws))

RefStrip(t) == IF t[1] = DQ /\ t[Len(t)] = DQ THEN SubSeq(t, 2, Len(t) - 1) ELSE t

RefTokens(line) ==
    LET g == RefGroup(RefWords(line, 1)) IN [i \in 1..Len(g) |-> RefStrip(g[i])]

\* C15: line mode refines vector mode: parsing a line gives what vector-mode
\* parsing gives on the tokens obtained by splitting the line on whitespace,
\* merging a token that starts with a quote and does not end with one with
\* the following tokens (joined by one space) through a token ending in a
\* quote, and stripping the quotes of tokens that start and end with one.
C15_Line_Refines_Vector ==
    (Parsed /\ input.mode = "line") => context = parseArgs(RefTokens(input.line))

\* c "a a": the quoted words reach the parser as the one positional "a a"
C15_Witness ==
    /\ Parsed
    /\ input.mode = "line"
    /\ Len(RefWords(input.line, 1)) = 3
    /\ context.commandName = s_c
    /\ context.args = << <<"a", " ", "a">> >>

\* ------------------------------------------------------------------------
\* Properties of the registry (SpecRegistry)
\* ------------------------------------------------------------------------
\* this step is a registerCommand call
RegisterStep == call'.op = "register" /\ regs' = regs + 1

\* the state is the one a registerCommand call left
Registered == call.op = "register"

Count(x, seq) == Cardinality({i \in 1..Len(seq) : seq[i] = x})
ListOf(catMap, c) == IF c \in DOMAIN catMap THEN catMap[c] ELSE <<>>
IsPrefix(a, b) == Len(a) <= Len(b) /\ SubSeq(b, 1, Len(a)) = a

\* the aliases of a definition that registerCommand enters
DeclaredAliases(cmd) ==
    {cmd.aliases[i] : i \in 1..Len(cmd.aliases)} \ {<<>>, cmd.name}

\* C16: registerCommand with an empty name returns false and leaves
\* commands, aliasToCommand and categoryToCommands as they were, even when
\* the definition declares aliases and a category.
C16_Empty_Name_Rejected ==
    [][(RegisterStep /\ call'.cmd.name = <<>>) =>
           (~call'.ok /\ UNCHANGED registryVars)]_vars

\* a nameless definition with alias x and category T was handed in: the call
\* failed and neither x nor T nor the empty name is a key
C16_Witness ==
    /\ Registered
    /\ call.cmd.name = <<>>
    /\ call.cmd.aliases = <<s_x>>
    /\ call.cmd.category = s_Tools
    /\ ~call.ok
    /\ s_x \notin DOMAIN aliasToCommand
    /\ s_Tools \notin DOMAIN categoryToCommands
    /\ <<>> \notin DOMAIN commands

\* C17: registerCommand with a non-empty name returns true; afterwards
\* commands[name] is the new definition, replacing one registered before (so
\* findCommand(name) gives the new one and getCommandList() holds the name
\* once), every declared alias that is non-empty and not the name maps to
\* the name, the name is appended to the list of the definition's category,
\* and every other key of commands is unchanged.
C17_Register_Effect ==
    [][(RegisterStep /\ call'.cmd.name # <<>>) =>
           LET cmd == call'.cmd
               name == cmd.name
           IN /\ call'.ok
              /\ DOMAIN commands' = DOMAIN commands \cup {name}
              /\ commands'[name] = cmd
              /\ \A k \in DOMAIN commands \ {name} : commands'[k] = commands[k]
              /\ findCommand(Registry', name) = <<cmd>>
              /\ Count(name, getCommandList(Registry')) = 1
              /\ \A a \in DeclaredAliases(cmd) :
                    a \in DOMAIN aliasToCommand' /\ aliasToCommand'[a] = name
              /\ cmd.category \in DOMAIN categoryToCommands'
              /\ categoryToCommands'[cmd.category] =
                    ListOf(categoryToCommands, cmd.category) \o <<name>>]_vars

\* n is registered a second time, with another definition: the second one
\* is stored, its alias points at n and n closes the list of its category
C17_Witness ==
    /\ Registered
    /\ call.ok
    /\ regs = 2
    /\ call.name = s_n
    /\ Count(s_n, ListOf(categoryToCommands, s_General)) = 1
    /\ call.cmd.category = s_Tools
    /\ categoryToCommands[s_Tools] = <<s_n>>
    /\ call.cmd.aliases = <<s_x>>
    /\ aliasToCommand[s_x] = s_n
    /\ commands[s_n] = call.cmd
    /\ getCommandList(Registry) = <<s_help, s_list, s_n>>

\* C18 as stated: after N, registered with alias A in category C, is
\* registered again without A and in another category, findCommand(A) gives
\* the new definition of N and N is listed under both categories.
C18_Original ==
    [][(RegisterStep /\ call'.ok /\ call'.name \in DOMAIN commands) =>
           LET new == call'.cmd
               old == commands[new.name]
           IN \A a \in DeclaredAliases(old) \ DeclaredAliases(new) :
                  new.category # old.category =>
                      /\ findCommand(Registry', a) = <<new>>
                      /\ Count(new.name, ListOf(categoryToCommands', old.category)) > 0
                      /\ Count(new.name, ListOf(categoryToCommands', new.category)) > 0]_vars

\* C18: no step removes a key of aliasToCommand or an element of a category
\* list. When N is registered again without an alias A that points at N, A
\* still points at N, and findCommand(A) gives the new definition of N
\* unless A is itself a key of commands (then it gives the definition stored
\* under A); N stays in every category list it was in and is appended to
\* the list of the new category, a second time when it was there already.
C18_Never_Retracted ==
    [][/\ DOMAIN aliasToCommand \subseteq DOMAIN aliasToCommand'
       /\ \A c \in DOMAIN categoryToCommands :
             /\ c \in DOMAIN categoryToCommands'
             /\ IsPrefix(categoryToCommands[c], categoryToCommands'[c])
       /\ (RegisterStep /\ call'.ok) =>
             LET new == call'.cmd
             IN /\ \A a \in DOMAIN aliasToCommand :
                      (aliasToCommand[a] = new.name /\ a \notin DeclaredAliases(new)) =>
                          /\ aliasToCommand'[a] = new.name
                          /\ findCommand(Registry', a) =
                                 IF a \in DOMAIN commands' THEN <<commands'[a]>>
                                 ELSE <<new>>
                /\ \A c \in DOMAIN categoryToCommands' :
                      Count(new.name, categoryToCommands'[c]) =
                          Count(new.name, ListOf(categoryToCommands, c))
                              + (IF c = new.category THEN 1 ELSE 0)]_vars

\* n, registered with alias x under G, is registered again without alias
\* under T: x still gives the new definition and n is listed under G and T
C18_Witness ==
    /\ Registered
    /\ call.ok
    /\ call.name = s_n
    /\ call.cmd.aliases = <<>>
    /\ call.cmd.category = s_Tools
    /\ s_x \in DOMAIN aliasToCommand
    /\ aliasToCommand[s_x] = s_n
    /\ findCommand(Registry, s_x) = <<call.cmd>>
    /\ Count(s_n, ListOf(categoryToCommands, s_General)) = 1
    /\ Count(s_n, ListOf(categoryToCommands, s_Tools)) = 1

\* what a lookup of x finds, by the three cases
Lookup(x) ==
    IF x \in DOMAIN commands THEN <<commands[x]>>
    ELSE IF x \in DOMAIN aliasToCommand /\ aliasToCommand[x] \in DOMAIN commands
         THEN <<commands[aliasToCommand[x]]>>
         ELSE <<>>

\* C19: findCommand(x) returns commands[x] when x is a primary name;
\* otherwise, when x is a key of aliasToCommand whose target is a key of
\* commands, that definition; otherwise nothing. A primary name wins over an
\* alias of the same spelling.
C19_Lookup_Order ==
    call.op = "find" =>
        /\ call.found = Lookup(call.name)
        /\ call.name \in DOMAIN commands => call.found = <<commands[call.name]>>

\* "list" is the builtin's name and an alias of another command: the lookup
\* returned the builtin
C19_Witness ==
    /\ call.op = "find"
    /\ call.name = s_list
    /\ s_list \in DOMAIN aliasToCommand
    /\ aliasToCommand[s_list] # s_list
    /\ call.found = <<listCmd>>

\* C20 as stated: in any registry state, after a successful registerCommand
\* of N with a declared alias A, findCommand(A) gives what findCommand(N)
\* gives.
C20_Original ==
    (Registered /\ call.ok) =>
        \A a \in DeclaredAliases(call.cmd) :
            findCommand(Registry, a) = findCommand(Registry, call.name)

\* C20: after a successful registerCommand of N with a declared alias A,
\* findCommand(A) gives the definition findCommand(N) gives, unless A is
\* itself a key of commands: then it gives the definition stored under A.
C20_Alias_Resolution ==
    (Registered /\ call.ok) =>
        \A a \in DeclaredAliases(call.cmd) :
            /\ findCommand(Registry, call.name) = <<call.cmd>>
            /\ findCommand(Registry, a) =
                   IF a \in DOMAIN commands THEN <<commands[a]>> ELSE <<call.cmd>>

\* a definition with alias x was registered and x gives that definition
C20_Witness ==
    /\ Registered
    /\ call.ok
    /\ s_x \in DeclaredAliases(call.cmd)
    /\ s_x \notin DOMAIN commands
    /\ findCommand(Registry, s_x) = <<call.cmd>>
    /\ findCommand(Registry, call.name) = <<call.cmd>>

\* ------------------------------------------------------------------------
\* Properties of the suggestion scan (SpecSuggest)
\* ------------------------------------------------------------------------
\* a dispatch has run and its command name was not found
DispatchedUnknown ==
    /\ pc = "done"
    /\ context.commandName # <<>>
    /\ findCommand(Registry, context.commandName) = <<>>

\* the similarity predicate as stated, for a non-empty a
Similar(a, b) ==
    \/ StartsWith(b, a)
    \/ /\ Abs(Len(a) - Len(b)) <= 2
       /\ 10 * Cardinality({i \in 1..Min(Len(a), Len(b)) : a[i] = b[i]})
              > 6 * Max(Len(a), Len(b))

Offered(b) == \E i \in 1..Len(shown) : shown[i] = b

C22_Original ==
    (DispatchedUnknown /\ maxSuggestions >= 0) => Len(shown) <= maxSuggestions

\* ------------------------------------------------------------------------
\* Further properties of the registry (SpecRegistry)
\* ------------------------------------------------------------------------
\* C23: right after construction the registry holds exactly help and list,
\* "?" resolves to the help entry (aliasToCommand is exactly ? -> help) and
\* both names are listed under General; findCommand("help") and
\* findCommand("list") succeed in every later state.
C23_Builtins ==
    /\ regs = 0 =>
          /\ DOMAIN commands = {s_help, s_list}
          /\ commands[s_help] = helpCmd
          /\ commands[s_list] = listCmd
          /\ DOMAIN aliasToCommand = {s_qmark}
          /\ aliasToCommand[s_qmark] = s_help
          /\ findCommand(Registry, s_qmark) = <<helpCmd>>
          /\ DOMAIN categoryToCommands = {s_General}
          /\ categoryToCommands[s_General] = <<s_help, s_list>>
    /\ findCommand(Registry, s_help) # <<>>
    /\ findCommand(Registry, s_list) # <<>>

\* after two registry operations a lookup of list returned the builtin
C23_Witness ==
    /\ regs = 2
    /\ call.op = "find"
    /\ call.name = s_list
    /\ call.found = <<listCmd>>
    /\ findCommand(Registry, s_help) = <<helpCmd>>

\* C25: in every state reached by registerCommand and createCommand calls,
\* every value of aliasToCommand is a key of commands and every name in
\* every category list is a key of commands.
C25_Indices_Point_At_Commands ==
    /\ \A a \in DOMAIN aliasToCommand : aliasToCommand[a] \in DOMAIN commands
    /\ \A c \in DOMAIN categoryToCommands :
          \A i \in 1..Len(categoryToCommands[c]) :
              categoryToCommands[c][i] \in DOMAIN commands

\* a rejected registration of a nameless definition with alias x, next to a
\* registered alias and a second category
C25_Witness ==
    /\ regs = 2
    /\ Registered
    /\ ~call.ok
    /\ call.cmd.aliases = <<s_x>>
    /\ \E a \in DOMAIN aliasToCommand : a # s_qmark /\ aliasToCommand[a] \in DOMAIN commands
    /\ Cardinality(DOMAIN commands) = 3

\* C29 as stated: when a command is registered declaring an alias that
\* another registered command declares, the alias is bound to the later
\* command, findCommand(alias) returns the later command and not the earlier
\* one, which still declares the alias, and the registration succeeds.
C29_Original ==
    [][(RegisterStep /\ call'.ok) =>
           LET new == call'.cmd
           IN \A a \in DeclaredAliases(new) :
                  \A m \in DOMAIN commands \ {new.name} :
                      a \in DeclaredAliases(commands[m]) =>
                          /\ aliasToCommand'[a] = new.name
                          /\ findCommand(Registry', a) = <<new>>
                          /\ a \in DeclaredAliases(commands'[m])]_vars

\* C29: when a command is registered declaring an alias that another
\* registered command declares, the registration succeeds, aliasToCommand
\* holds the alias once and bound to the later command, the earlier command
\* still declares it, and findCommand(alias) returns the later command and
\* not the earlier one, unless the alias is itself a key of commands: then
\* it returns the definition stored under that key.
C29_Duplicate_Alias ==
    [][(RegisterStep /\ call'.ok) =>
           LET new == call'.cmd
           IN \A a \in DeclaredAliases(new) :
                  \A m \in DOMAIN commands \ {new.name} :
                      a \in DeclaredAliases(commands[m]) =>
                          /\ aliasToCommand'[a] = new.name
                          /\ commands'[m] = commands[m]
                          /\ findCommand(Registry', a) =
                                 IF a \in DOMAIN commands' THEN <<commands'[a]>>
                                 ELSE <<new>>
                          /\ a \notin DOMAIN commands' =>
                                 findCommand(Registry', a) # <<commands'[m]>>]_vars

\* n was registered with alias x, then m with aliases n and x: x is bound to
\* m and gives m's definition, and n's definition still declares x
C29_Witness ==
    /\ Registered
    /\ call.ok
    /\ call.name = s_m
    /\ s_n \in DOMAIN commands
    /\ s_x \in DeclaredAliases(commands[s_n])
    /\ s_x \in DeclaredAliases(call.cmd)
    /\ aliasToCommand[s_x] = s_m
    /\ findCommand(Registry, s_x) = <<call.cmd>>

\* ------------------------------------------------------------------------
\* Properties of the fluent registration path (SpecFluent)
\* ------------------------------------------------------------------------
\* C26 as stated: after any sequence of registerCommand, createCommand and
\* fluent addAlias and setCategory calls, every non-empty non-self alias
\* declared by a definition in commands is mapped by aliasToCommand to that
\* definition's name, so that findCommand(alias) finds it, and every
\* definition's name is listed under the definition's current category.
C26_Original ==
    \A n \in DOMAIN commands :
        /\ \A a \in DeclaredAliases(commands[n]) :
              /\ a \in DOMAIN aliasToCommand
              /\ aliasToCommand[a] = n
              /\ findCommand(Registry, a) = <<commands[n]>>
        /\ Count(n, ListOf(categoryToCommands, commands[n].category)) > 0

\* ------------------------------------------------------------------------
\* Further properties of the dispatcher (Spec)
\* ------------------------------------------------------------------------
StepOrder == <<"lookup", "suggest", "help", "validate", "execute">>

\* the command the dispatched name resolves to, or <<>>
Resolved == findCommand(Registry, context.commandName)

\* C24: within one dispatch the steps run in the order empty-check, resolve,
\* help interception, validate, invoke, none of them twice, and the call ends
\* at the first step that decides the outcome; the handler is invoked at most
\* once, and only when the command name is not empty, the lookup succeeded,
\* neither h nor help is among the flags, and validation passed.
C24_Step_Order ==
    Dispatched =>
        /\ IsSubseq(outcome.steps, StepOrder)
        /\ outcome.steps =
              IF context.commandName = <<>> THEN <<>>
              ELSE IF Resolved = <<>> THEN <<"lookup", "suggest">>
              ELSE IF s_h \in context.flags \/ s_help \in context.flags
                   THEN <<"lookup", "help">>
              ELSE IF ~outcome.validation.ok THEN <<"lookup", "validate">>
              ELSE <<"lookup", "validate", "execute">>
        /\ Len(outcome.invoked) <= 1
        /\ outcome.invoked # <<>> =>
              /\ context.commandName # <<>>
              /\ Resolved # <<>>
              /\ outcome.invoked = <<Resolved[1].name>>
              /\ s_h \notin context.flags /\ s_help \notin context.flags
              /\ outcome.validation = validateArguments(Resolved[1], context)
              /\ outcome.validation.ok

\* a handler that requires a positional was invoked, once, after lookup and
\* validation
C24_Witness ==
    /\ Dispatched
    /\ outcome.steps = <<"lookup", "validate", "execute">>
    /\ outcome.invoked = <<s_c>>
    /\ Len(commands[s_c].parameters) > 0
    /\ commands[s_c].parameters[1].required
    /\ Len(context.args) > 0

\* the dispatched name resolves to a command without executor, no help flag
\* is set and validation passes
NoHandlerCase ==
    /\ Resolved # <<>>
    /\ ~isExecutable(Resolved[1])
    /\ ~helpRequested(context)
    /\ validateArguments(Resolved[1], context).ok

\* C30: a command that resolves and passes validation but has no handler
\* installed makes dispatch return failure: nothing is invoked, no fault is
\* raised, and the registry is unchanged.
C30_No_Handler ==
    [][(pc = "setup" /\ pc' = "done" /\ NoHandlerCase') =>
           /\ outcome'.result = "false"
           /\ outcome'.invoked = <<>>
           /\ outcome'.returned = "none"
           /\ outcome'.fault = "none"
           /\ UNCHANGED registryVars]_vars

\* c, registered without executor, was dispatched with one positional
C30_Witness ==
    /\ Dispatched
    /\ NoHandlerCase
    /\ context.commandName = s_c
    /\ Len(context.args) = 1
    /\ outcome.result = "false"
    /\ outcome.steps = <<"lookup", "validate", "execute">>

\* ------------------------------------------------------------------------
\* Properties of the loops (SpecInteractive, SpecArgLoop)
\* ------------------------------------------------------------------------
ReservedWords == {s_help, s_list, s_exit, s_quit}

\* C27 (as claimed): in the interactive loop a line that is exactly help,
\* list, exit or quit never reaches the dispatcher, empty lines are skipped,
\* and the loop ends only on exit, quit or end of input: no dispatch, whatever
\* it does, makes the loop stop reading.
C27_Original ==
    /\ \A k \in 1..Len(log) : log[k].line \notin ReservedWords \cup {s_empty}
    /\ loop.status \in {"idle", "reading", "exit", "quit", "eof"}

\* the position after argv[0] of each token that processArgLoop takes as a
\* command name: a token without leading dash that opens a run of them
CommandPositions(argv) ==
    {i \in 2..Len(argv) :
        /\ FirstChar(argv[i]) # "-"
        /\ i = 2 \/ FirstChar(argv[i - 1]) = "-"}

\* the tokens between position i and the next dash-prefixed token
RunAfter(argv, i) ==
    LET stops == {j \in (i + 1)..Len(argv) : FirstChar(argv[j]) = "-"}
        last == IF stops = {} THEN Len(argv) ELSE Lowest(stops) - 1
    IN SubSeq(argv, i + 1, last)

\* the k-th smallest element of a set of numbers
RECURSIVE Nth(_, _)
Nth(S, k) == IF k = 1 THEN Lowest(S) ELSE Nth(S \ {Lowest(S)}, k - 1)

LoopCalled == pc = "done" /\ loop.status # "idle"

\* C28 (as claimed): processArgLoop scans from index 1, skips dash-prefixed
\* tokens, and dispatches every remaining token that opens a run as a command
\* whose positionals are the rest of the run, without options or flags, in
\* order and whatever the earlier dispatches did; it returns true if and
\* only if every dispatch returned success.
C28_Original ==
    LoopCalled =>
        LET argv == input.argv
            cmds == CommandPositions(argv)
        IN /\ Len(log) = Cardinality(cmds)
           /\ \A k \in 1..Len(log) :
                 /\ k <= Cardinality(cmds)
                 /\ log[k].context =
                       [commandName |-> argv[Nth(cmds, k)], options |-> EmptyMap,
                        flags |-> {}, args |-> RunAfter(argv, Nth(cmds, k))]
           /\ loop.status = "returned"
           /\ loop.result = "true" <=>
                 \A k \in 1..Len(log) : log[k].outcome.result = "true"

====
